---- MODULE Spec2Model ----
(***************************************************************************)
(* Model of preprocess_data (preprocessing/automate_Karinda-Amelia.py):    *)
(* a CSV table is loaded and passed through seven cleaning stages, then    *)
(* optionally written to save_path and returned.                           *)
(*                                                                         *)
(* A table is a record [dtype, rows]: dtype maps each column name to       *)
(* "number" or "object" (the pandas dtype class that select_dtypes tests), *)
(* rows is the sequence of rows, each a function from column name to cell. *)
(* A cell is NaN (missing), a number or a string.  Numbers are exact       *)
(* rationals held as an integer count of 1/Unit, which is closed under the *)
(* quartile interpolation and the 1.5*IQR bounds for integer inputs; the   *)
(* code's float64 rounding is not modelled.  Strings are sequences of      *)
(* one-character strings, so that parsing and ordering are computed.       *)
(***************************************************************************)
EXTENDS Integers, Sequences, FiniteSets, TLC

VARIABLES pc, data, prev, trace, save_path, files, dirs, returned, result, error

vars == <<pc, data, prev, trace, save_path, files, dirs, returned, result, error>>

\* ------------------------------------------------------------------ bounds
MaxRowsEnc == 4
MaxRowsDate == 3
MaxRowsMissing == 3

\* ------------------------------------------------------------------- cells
\* quartiles interpolate in quarters, and 1.5 * IQR halves once more
Unit == 4 * 2

NaN == [k |-> "nan"]

Num(i) == [k |-> "num", v |-> i * Unit]

Str(s) == [k |-> "str", s |-> s]

IsNa(c) == c.k = "nan"

Range(f) == {f[i] : i \in DOMAIN f}

\* ------------------------------------------------------------------ tables
NoTable == [dtype |-> <<>>, rows |-> <<>>]

Cols(t) == DOMAIN t.dtype

NRows(t) == Len(t.rows)

Column(t, c) == [i \in 1..NRows(t) |-> t.rows[i][c]]

\* select_dtypes(include=["number"]) / select_dtypes(include=["object"])
SelectDtypes(t, kind) == {c \in Cols(t) : t.dtype[c] = kind}

\* the dtype read_csv gives a column: numeric when every field is a number or empty
InferDType(cells) ==
    IF \A i \in DOMAIN cells : cells[i].k \in {"num", "nan"} THEN "number" ELSE "object"

ReadCsv(colset, rows) ==
    [dtype |-> [c \in colset |-> InferDType([i \in 1..Len(rows) |-> rows[i][c]])],
     rows |-> rows]

Project(t, keep) ==
    [dtype |-> [c \in keep |-> t.dtype[c]],
     rows |-> [i \in 1..NRows(t) |-> [c \in keep |-> t.rows[i][c]]]]

\* data.dropna(axis=1, how="all"): a column stays when some cell is not missing
DropEmptyColumns(t) ==
    Project(t, {c \in Cols(t) : \E i \in 1..NRows(t) : ~IsNa(t.rows[i][c])})

RowComplete(r) == \A c \in DOMAIN r : ~IsNa(r[c])

\* data.dropna(): a row stays when no cell is missing
DropNa(t) == [t EXCEPT !.rows = SelectSeq(t.rows, RowComplete)]

RECURSIVE KeepIdx(_, _, _)
KeepIdx(s, keep, i) ==
    IF i > Len(s) THEN <<>>
    ELSE (IF i \in keep THEN <<s[i]>> ELSE <<>>) \o KeepIdx(s, keep, i + 1)

\* data.drop_duplicates(): keep="first"
DropDuplicates(t) ==
    [t EXCEPT !.rows =
        KeepIdx(t.rows, {i \in 1..NRows(t) : \A j \in 1..(i - 1) : t.rows[j] # t.rows[i]}, 1)]

\* --------------------------------------------------------- stage 4: clipping
\* element number k (from 0) of xs in ascending order
Kth(xs, k) ==
    CHOOSE v \in Range(xs) :
        /\ Cardinality({i \in DOMAIN xs : xs[i] < v}) <= k
        /\ k < Cardinality({i \in DOMAIN xs : xs[i] <= v})

\* faulty variant: the lower of the two closest ranks, without interpolation
QuantileLowerRank(xs, num, den) == Kth(xs, ((Len(xs) - 1) * num) \div den)

\* Series.quantile(num/den), interpolation="linear": position (n-1)*num/den,
\* between the two closest ranks
Quantile(xs, num, den) ==
    LET n == Len(xs)
        lo == ((n - 1) * num) \div den
        r == ((n - 1) * num) % den
        hi == IF r = 0 THEN lo ELSE lo + 1
    IN Kth(xs, lo) + (r * (Kth(xs, hi) - Kth(xs, lo))) \div den

NumVals(t, c) == [i \in 1..NRows(t) |-> t.rows[i][c].v]

IQR(xs) == Quantile(xs, 3, 4) - Quantile(xs, 1, 4)

\* Q1 - 1.5 * IQR
LowerBound(xs) == Quantile(xs, 1, 4) - (3 * IQR(xs)) \div 2

\* Q3 + 1.5 * IQR
UpperBound(xs) == Quantile(xs, 3, 4) + (3 * IQR(xs)) \div 2

ClipValue(v, lower, upper) ==
    IF v < lower THEN lower ELSE IF v > upper THEN upper ELSE v

\* on a table without rows the quantiles are NaN and there is nothing to clip
ClipOutliers(t) ==
    LET numeric_columns == SelectDtypes(t, "number")
    IN IF NRows(t) = 0 THEN t
       ELSE [t EXCEPT !.rows =
               [i \in 1..NRows(t) |->
                  [c \in Cols(t) |->
                     IF c \in numeric_columns
                     THEN [k |-> "num",
                           v |-> ClipValue(t.rows[i][c].v,
                                           LowerBound(NumVals(t, c)),
                                           UpperBound(NumVals(t, c)))]
                     ELSE t.rows[i][c]]]]

\* ---------------------------------------------------- stage 5: date features
Digits == <<"0", "1", "2", "3", "4", "5", "6", "7", "8", "9">>

IsDigit(ch) == \E i \in 1..Len(Digits) : Digits[i] = ch

DigitVal(ch) == (CHOOSE i \in 1..Len(Digits) : Digits[i] = ch) - 1

RECURSIVE ToInt(_)
ToInt(s) ==
    IF s = <<>> THEN 0
    ELSE 10 * ToInt(SubSeq(s, 1, Len(s) - 1)) + DigitVal(s[Len(s)])

IsNumber(s) == Len(s) > 0 /\ \A i \in 1..Len(s) : IsDigit(s[i])

IsLeap(y) == (y % 4 = 0 /\ y % 100 # 0) \/ y % 400 = 0

DaysInMonth(y, m) ==
    IF m = 2 THEN (IF IsLeap(y) THEN 29 ELSE 28)
    ELSE IF m \in {4, 6, 9, 11} THEN 30 ELSE 31

NaT == [ok |-> FALSE, year |-> 0, month |-> 0, day |-> 0]

\* pd.to_datetime(..., dayfirst=True, errors="coerce") on day/month/year text:
\* the first field is the day; what is not a calendar date becomes NaT
ToDatetime(s) ==
    LET slashes == {i \in 1..Len(s) : s[i] = "/"}
    IN IF Cardinality(slashes) # 2 THEN NaT
       ELSE LET a == CHOOSE i \in slashes : \A j \in slashes : i <= j
                b == CHOOSE i \in slashes : \A j \in slashes : j <= i
                df == SubSeq(s, 1, a - 1)
                mf == SubSeq(s, a + 1, b - 1)
                yf == SubSeq(s, b + 1, Len(s))
            IN IF ~(IsNumber(df) /\ IsNumber(mf) /\ IsNumber(yf)) THEN NaT
               ELSE IF Len(df) > 2 \/ Len(mf) > 2 \/ Len(yf) # 4 THEN NaT
               ELSE LET d == ToInt(df)
                        m == ToInt(mf)
                        y == ToInt(yf)
                    IN IF m < 1 \/ m > 12 THEN NaT
                       ELSE IF d < 1 \/ d > DaysInMonth(y, m) THEN NaT
                       ELSE [ok |-> TRUE, year |-> y, month |-> m, day |-> d]

\* days since 1970-01-01 in the proleptic Gregorian calendar
DaysFromCivil(y, m, d) ==
    LET yy == IF m <= 2 THEN y - 1 ELSE y
        era == yy \div 400
        yoe == yy - era * 400
        mp == (m + 9) % 12
        doy == (153 * mp + 2) \div 5 + d - 1
        doe == yoe * 365 + yoe \div 4 - yoe \div 100 + doy
    IN era * 146097 + doe - 719468

\* Series.dt.dayofweek: Monday is 0, Sunday is 6 (1970-01-01 was a Thursday)
DayOfWeek(dt) == (DaysFromCivil(dt.year, dt.month, dt.day) + 3) % 7

DateColumns == {"year", "month", "day", "dayofweek", "is_weekend"}

\* .dt.year, .dt.month, .dt.day, .dt.dayofweek of one parsed date; NaN for NaT
DateCell(dt, c) ==
    IF ~dt.ok THEN NaN
    ELSE IF c = "year" THEN Num(dt.year)
    ELSE IF c = "month" THEN Num(dt.month)
    ELSE IF c = "day" THEN Num(dt.day)
    ELSE Num(DayOfWeek(dt))

\* faulty variant: Saturday and Sunday numbered as by isoweekday (6, 7)
IsWeekendIso(dow) ==
    IF ~IsNa(dow) /\ dow \in {Num(6), Num(7)} THEN Num(1) ELSE Num(0)

\* data["dayofweek"].isin([5, 6]).astype(int); NaN is in no list
IsWeekend(dow) ==
    IF ~IsNa(dow) /\ dow \in {Num(5), Num(6)} THEN Num(1) ELSE Num(0)

DateFeatures(t) ==
    IF "Date" \notin Cols(t) THEN t
    ELSE LET newcols == (Cols(t) \cup DateColumns) \ {"Date"}
         IN [dtype |-> [c \in newcols |-> IF c \in DateColumns THEN "number" ELSE t.dtype[c]],
             rows |-> [i \in 1..NRows(t) |->
                         [c \in newcols |->
                            IF c = "is_weekend"
                            THEN IsWeekend(DateCell(ToDatetime(t.rows[i]["Date"].s), "dayofweek"))
                            ELSE IF c \in DateColumns
                            THEN DateCell(ToDatetime(t.rows[i]["Date"].s), c)
                            ELSE t.rows[i][c]]]]

\* ------------------------------------------------------- stage 6: encoding
\* the characters of the modelled strings in code point order
CharOrder ==
    <<"/", "0", "1", "2", "3", "4", "5", "6", "7", "8", "9", "B", "a", "b", "c", "d">>

Ord(ch) == CHOOSE i \in 1..Len(CharOrder) : CharOrder[i] = ch

\* Python's str <: the first differing character decides, a proper prefix is smaller
StrLess(a, b) ==
    \E k \in 1..(Len(b)) :
        /\ \A j \in 1..(k - 1) : j <= Len(a) /\ a[j] = b[j]
        /\ k - 1 <= Len(a)
        /\ (k > Len(a) \/ Ord(a[k]) < Ord(b[k]))

RECURSIVE SortStrings(_)
SortStrings(S) ==
    IF S = {} THEN <<>>
    ELSE LET m == CHOOSE x \in S : \A y \in S : x = y \/ StrLess(x, y)
         IN <<m>> \o SortStrings(S \ {m})

\* faulty variant: the distinct values in first-seen order
ClassesFirstSeen(cells) ==
    LET first == {i \in DOMAIN cells : \A j \in 1..(i - 1) : cells[j] # cells[i]}
    IN KeepIdx([i \in DOMAIN cells |-> cells[i].s], first, 1)

\* LabelEncoder.fit: classes_ is the sorted sequence of the distinct values
Classes(cells) == SortStrings({cells[i].s : i \in DOMAIN cells})

\* LabelEncoder.transform: the position of the value in classes_, from 0
LabelCode(classes, s) == (CHOOSE i \in 1..Len(classes) : classes[i] = s) - 1

FitTransform(cells) ==
    [i \in DOMAIN cells |-> Num(LabelCode(Classes(cells), cells[i].s))]

EncodeCategorical(t) ==
    LET categorical_cols == SelectDtypes(t, "object")
    IN [dtype |-> [c \in Cols(t) |-> "number"],
        rows |-> [i \in 1..NRows(t) |->
                    [c \in Cols(t) |->
                       IF c \in categorical_cols
                       THEN FitTransform(Column(t, c))[i]
                       ELSE t.rows[i][c]]]]

\* -------------------------------------------------- stage 7: standardization
RECURSIVE SumSeq(_)
SumSeq(xs) == IF xs = <<>> THEN 0 ELSE xs[1] + SumSeq(Tail(xs))

RECURSIVE GCD(_, _)
GCD(a, b) == IF b = 0 THEN a ELSE GCD(b, a % b)

Sign(x) == IF x > 0 THEN 1 ELSE IF x < 0 THEN 0 - 1 ELSE 0

\* a standardized value sgn * sqrt(num/den), num/den in lowest terms
Z(sgn, num, den) ==
    IF num = 0 THEN [k |-> "std", sgn |-> 0, num |-> 0, den |-> 1]
    ELSE [k |-> "std", sgn |-> sgn, num |-> num \div GCD(num, den), den |-> den \div GCD(num, den)]

Present(cells) == SelectSeq(cells, LAMBDA c : ~IsNa(c))

\* n * (x - mean) for each present value x: the deviations from mean_, times n
Deviations(cells) ==
    LET xs == Present(cells)
        n == Len(xs)
        S == SumSeq([i \in 1..n |-> xs[i].v])
    IN [i \in 1..n |-> n * xs[i].v - S]

\* n^3 * var_, var_ the variance with divisor n (numpy's default, ddof=0)
ScaledVar(cells) ==
    LET d == Deviations(cells) IN SumSeq([i \in 1..Len(d) |-> d[i] * d[i]])

\* faulty variant: the sample variance, divisor n - 1
ScaleCellBessel(cells, i) ==
    LET n == Len(Present(cells))
        S == SumSeq([j \in 1..n |-> Present(cells)[j].v])
        d == n * cells[i].v - S
    IN IF ScaledVar(cells) = 0 THEN Z(0, 0, 1)
       ELSE Z(Sign(d), (n - 1) * d * d, ScaledVar(cells))

\* faulty variant: no guard on a zero scale_, 0/0 is NaN
ScaleCellUnguarded(cells, i) ==
    LET n == Len(Present(cells))
        S == SumSeq([j \in 1..n |-> Present(cells)[j].v])
        d == n * cells[i].v - S
    IN IF ScaledVar(cells) = 0 THEN NaN
       ELSE Z(Sign(d), n * d * d, ScaledVar(cells))

\* StandardScaler.fit_transform on one column.  Missing cells are left out of
\* mean_ and var_ and stay missing.  _handle_zeros_in_scale sets scale_ to 1
\* where the variance is zero, so a constant column becomes x - mean = 0.
\* ((x - mean) / sqrt(var))^2 = n * (n*(x - mean))^2 / (n^3 * var)
ScaleCell(cells, i) ==
    LET n == Len(Present(cells))
        S == SumSeq([j \in 1..n |-> Present(cells)[j].v])
        d == n * cells[i].v - S
    IN IF ScaledVar(cells) = 0 THEN Z(0, 0, 1)
       ELSE Z(Sign(d), n * d * d, ScaledVar(cells))

ScaleColumn(cells) ==
    [i \in DOMAIN cells |-> IF IsNa(cells[i]) THEN NaN ELSE ScaleCell(cells, i)]

\* check_array in StandardScaler.fit raises ValueError on 0 samples or 0 features
ScalerAccepts(t) == NRows(t) >= 1 /\ SelectDtypes(t, "number") # {}

Standardize(t) ==
    LET numeric_columns == SelectDtypes(t, "number")
    IN [t EXCEPT !.rows =
          [i \in 1..NRows(t) |->
             [c \in Cols(t) |->
                IF c \in numeric_columns THEN ScaleColumn(Column(t, c))[i]
                ELSE t.rows[i][c]]]]

\* ------------------------------------------------------------------ saving
\* a path is its sequence of segments; save_path=None is a path not given
None == [given |-> FALSE, path |-> <<>>]

Path(p) == [given |-> TRUE, path |-> p]

\* os.path.dirname: everything before the last segment
Dirname(p) == IF p = <<>> THEN <<>> ELSE SubSeq(p, 1, Len(p) - 1)

\* os.makedirs(save_dir, exist_ok=True): the directory and its parents
MakeDirs(d) == {SubSeq(d, 1, n) : n \in 1..Len(d)}

\* ------------------------------------------------------------------ inputs
SavePaths == {None, Path(<<>>), Path(<<"out.csv">>), Path(<<"dir", "sub", "out.csv">>)}

Tables(alphabet, maxRows) == UNION {[1..n -> alphabet] : n \in 0..maxRows}

\* a text column and a numeric column, no field empty
EncRows ==
    {[Time |-> Str(t), CO |-> Num(x)] : t \in {<<"a">>, <<"b">>, <<"c">>}, x \in {0, 1}}

\* rows with empty fields, and text whose order is not its first-seen order
MissingRows ==
    {[Time |-> Str(<<"a", "b">>), CO |-> Num(0)],
     [Time |-> Str(<<"B">>), CO |-> Num(0)],
     [Time |-> Str(<<"b">>), CO |-> NaN],
     [Time |-> NaN, CO |-> Num(1)]}

DateTexts ==
    {<<"0", "5", "/", "0", "3", "/", "2", "0", "2", "1">>,
     <<"5", "/", "3", "/", "2", "0", "2", "1">>,
     <<"0", "6", "/", "0", "3", "/", "2", "0", "2", "1">>,
     <<"0", "7", "/", "0", "3", "/", "2", "0", "2", "1">>,
     <<"3", "0", "/", "0", "2", "/", "2", "0", "2", "1">>,
     <<"b", "a", "d">>}

DateRows ==
    {[Date |-> Str(d), CO |-> Num(0)] : d \in DateTexts}
        \cup {[Date |-> Str(<<"0", "5", "/", "0", "3", "/", "2", "0", "2", "1">>), CO |-> Num(1)]}

Inputs ==
    {[cols |-> {"Time", "CO"}, rows |-> r] : r \in Tables(EncRows, MaxRowsEnc)}
        \cup {[cols |-> {"Time", "CO"}, rows |-> r] : r \in Tables(MissingRows, MaxRowsMissing)}
        \cup {[cols |-> {"Date", "CO"}, rows |-> r] : r \in Tables(DateRows, MaxRowsDate)}

\* ----------------------------------------------------------------- program
StageOrder ==
    <<"drop_empty_columns", "dropna", "drop_duplicates", "clip", "date", "encode",
      "standardize">>

\* faulty variant: standardization before the encoding
AfterScaleFirst(stage) ==
    IF stage = "date" THEN "standardize"
    ELSE IF stage = "standardize" THEN "encode"
    ELSE IF stage = "encode" THEN "save"
    ELSE StageOrder[(CHOOSE i \in 1..Len(StageOrder) : StageOrder[i] = stage) + 1]

\* the statement that follows a stage in preprocess_data
After(stage) ==
    IF stage = "standardize" THEN "save"
    ELSE StageOrder[(CHOOSE i \in 1..Len(StageOrder) : StageOrder[i] = stage) + 1]

Init ==
    /\ pc = "load"
    /\ data = NoTable
    /\ prev = NoTable
    /\ trace = <<>>
    /\ save_path = None
    /\ files = {}
    /\ dirs = {}
    /\ returned = FALSE
    /\ result = NoTable
    /\ error = "none"

\* preprocess_data(file_path, save_path) is called; data = pd.read_csv(file_path, sep=";")
Load ==
    /\ pc = "load"
    /\ \E in \in Inputs, sp \in SavePaths :
          /\ data' = ReadCsv(in.cols, in.rows)
          /\ save_path' = sp
    /\ pc' = "drop_empty_columns"
    /\ UNCHANGED <<prev, trace, files, dirs, returned, result, error>>

Stage(name, out) ==
    /\ pc = name
    /\ prev' = data
    /\ data' = out
    /\ trace' = Append(trace, name)
    /\ pc' = After(name)
    /\ UNCHANGED <<save_path, files, dirs, returned, result, error>>

StageDropEmptyColumns == Stage("drop_empty_columns", DropEmptyColumns(data))

StageDropNa == Stage("dropna", DropNa(data))

StageDropDuplicates == Stage("drop_duplicates", DropDuplicates(data))

StageClip == Stage("clip", ClipOutliers(data))

StageDate == Stage("date", DateFeatures(data))

StageEncode == Stage("encode", EncodeCategorical(data))

StageStandardize ==
    /\ ScalerAccepts(data)
    /\ Stage("standardize", Standardize(data))

\* scaler.fit_transform raises ValueError: the call ends without a result
StageStandardizeRaises ==
    /\ pc = "standardize"
    /\ ~ScalerAccepts(data)
    /\ prev' = data
    /\ trace' = Append(trace, "standardize")
    /\ error' = "ValueError"
    /\ pc' = "raised"
    /\ UNCHANGED <<data, save_path, files, dirs, returned, result>>

\* os.path.dirname(None) raises TypeError before anything is written or returned
SaveRaises ==
    /\ pc = "save"
    /\ ~save_path.given
    /\ error' = "TypeError"
    /\ pc' = "raised"
    /\ UNCHANGED <<data, prev, trace, save_path, files, dirs, returned, result>>

Save ==
    /\ pc = "save"
    /\ save_path.given
    /\ LET save_dir == Dirname(save_path.path)
       IN dirs' = IF save_dir # <<>> THEN dirs \cup MakeDirs(save_dir) ELSE dirs
    /\ files' = IF save_path.path # <<>>
                THEN files \cup {[path |-> save_path.path, content |-> data]}
                ELSE files
    /\ returned' = TRUE
    /\ result' = data
    /\ pc' = "done"
    /\ UNCHANGED <<data, prev, trace, save_path, error>>

Next ==
    \/ Load
    \/ StageDropEmptyColumns
    \/ StageDropNa
    \/ StageDropDuplicates
    \/ StageClip
    \/ StageDate
    \/ StageEncode
    \/ StageStandardize
    \/ StageStandardizeRaises
    \/ SaveRaises
    \/ Save

Spec == Init /\ [][Next]_vars

\* ================================================================== claims
Finished == pc \in {"done", "raised"}

Last(stage) == trace # <<>> /\ trace[Len(trace)] = stage

NoDuplicates(t) == \A i, j \in 1..NRows(t) : i # j => t.rows[i] # t.rows[j]

NoMissing(t) == \A i \in 1..NRows(t) : \A c \in Cols(t) : ~IsNa(t.rows[i][c])

\* C1: a call whose seven stages completed returns the table whether or not a
\* destination was given: without one nothing is written, with one the table
\* is written there, its parent directories exist, and the same table is returned.
C1_ReturnsWithOrWithoutDestination ==
    (Finished /\ trace = StageOrder /\ error # "ValueError") =>
        /\ returned /\ result = data
        /\ ~save_path.given => files = {}
        /\ (save_path.given /\ save_path.path # <<>>) =>
              /\ [path |-> save_path.path, content |-> result] \in files
              /\ MakeDirs(Dirname(save_path.path)) \subseteq dirs

\* C2: no cell of a returned table is missing, the date-derived cells included.
C2_NoMissingValuesSurvive == returned => NoMissing(result)

\* C3: the rows of a returned table are pairwise distinct.
C3_NoDuplicateRowsSurvive == returned => NoDuplicates(result)

\* C4: once dropping incomplete rows has left no row, no later stage raises,
\* and the table returned is empty.
C4_EmptyTableRunsThrough ==
    (Len(trace) >= 2 /\ NRows(data) = 0) =>
        /\ error # "ValueError"
        /\ pc = "done" => (returned /\ NRows(result) = 0)

\* C5: after stage 4 every value of a numeric column lies between
\* Q1 - 1.5*(Q3-Q1) and Q3 + 1.5*(Q3-Q1), Q1 and Q3 the 25th and 75th percentiles
\* (linear interpolation) of the column before clipping; a value inside the
\* bounds is unchanged, one outside becomes the nearer bound, no row is removed.
\* The percentiles are taken times 4 and the bounds times 8, to stay in integers.
C5_Pct4(xs, q) ==
    LET sorted == SortSeq(xs, LAMBDA a, b : a < b)
        n == Len(xs)
        lo == ((n - 1) * q) \div 4
        r == ((n - 1) * q) % 4
    IN (4 - r) * sorted[lo + 1] + (IF r = 0 THEN 0 ELSE r * sorted[lo + 2])

C5_Lower8(xs) == 2 * C5_Pct4(xs, 1) - 3 * (C5_Pct4(xs, 3) - C5_Pct4(xs, 1))

C5_Upper8(xs) == 2 * C5_Pct4(xs, 3) + 3 * (C5_Pct4(xs, 3) - C5_Pct4(xs, 1))

C5_ClippingBounds ==
    (pc = "date" /\ Last("clip")) =>
        /\ NRows(data) = NRows(prev)
        /\ \A c \in SelectDtypes(prev, "number") : \A i \in 1..NRows(prev) :
              LET xs == NumVals(prev, c)
                  v == prev.rows[i][c].v
                  w == data.rows[i][c].v
              IN /\ C5_Lower8(xs) <= 8 * w /\ 8 * w <= C5_Upper8(xs)
                 /\ (C5_Lower8(xs) <= 8 * v /\ 8 * v <= C5_Upper8(xs)) => w = v
                 /\ 8 * v < C5_Lower8(xs) => 8 * w = C5_Lower8(xs)
                 /\ 8 * v > C5_Upper8(xs) => 8 * w = C5_Upper8(xs)

\* a column in which stage 4 raised one value to the lower bound and left another
C5_Witness ==
    /\ pc = "date" /\ Last("clip")
    /\ \E c \in SelectDtypes(prev, "number") : \E i, j \in 1..NRows(prev) :
          /\ prev.rows[i][c].v < data.rows[i][c].v
          /\ prev.rows[j][c].v = data.rows[j][c].v

\* the deviations n*(x - mean) of the present values of a column, for C6 and C10
C6_Values(cells) == {i \in DOMAIN cells : ~IsNa(cells[i])}

C6_Sum(cells) == SumSeq([i \in 1..Len(Present(cells)) |-> Present(cells)[i].v])

C6_Dev(cells, i) == Cardinality(C6_Values(cells)) * cells[i].v - C6_Sum(cells)

RECURSIVE C6_SumSq(_, _)
C6_SumSq(cells, I) ==
    IF I = {} THEN 0
    ELSE LET i == CHOOSE i \in I : TRUE
         IN C6_Dev(cells, i) * C6_Dev(cells, i) + C6_SumSq(cells, I \ {i})

\* C6 as stated: stage 7 replaces each value v of a numeric column of nonzero
\* deviation with (v - mean)/s, s the sample standard deviation (divisor n-1):
\* z has the sign of v - mean and z^2 * sum(dev^2) = (n-1) * dev(v)^2.
C6_SampleStandardDeviation ==
    (pc = "save" /\ Last("standardize")) =>
        \A c \in SelectDtypes(prev, "number") : \A i \in 1..NRows(prev) :
            LET cells == Column(prev, c)
                n == Cardinality(C6_Values(cells))
                z == data.rows[i][c]
            IN (~IsNa(cells[i]) /\ C6_SumSq(cells, C6_Values(cells)) # 0) =>
                  /\ z.k = "std"
                  /\ z.sgn = Sign(C6_Dev(cells, i))
                  /\ z.num * C6_SumSq(cells, C6_Values(cells))
                        = z.den * (n - 1) * C6_Dev(cells, i) * C6_Dev(cells, i)

\* C6 amended: stage 7 replaces each present value v of a numeric column with
\* (v - mean)/s, mean and s the mean and the population standard deviation
\* (divisor n) of the column's present values before stage 7; where s is zero
\* the divisor is 1, so the value becomes 0; a missing cell stays missing.
C6_PopulationStandardDeviation ==
    (pc = "save" /\ Last("standardize")) =>
        \A c \in SelectDtypes(prev, "number") : \A i \in 1..NRows(prev) :
            LET cells == Column(prev, c)
                n == Cardinality(C6_Values(cells))
                z == data.rows[i][c]
            IN IF IsNa(cells[i]) THEN IsNa(z)
               ELSE /\ z.k = "std"
                    /\ z.sgn = Sign(C6_Dev(cells, i))
                    /\ IF C6_SumSq(cells, C6_Values(cells)) = 0 THEN z.num = 0
                       ELSE z.num * C6_SumSq(cells, C6_Values(cells))
                               = z.den * n * C6_Dev(cells, i) * C6_Dev(cells, i)

\* a column of three rows that is not constant has been standardized
C6_Witness ==
    /\ pc = "save" /\ Last("standardize")
    /\ NRows(prev) >= 3
    /\ \E c \in SelectDtypes(prev, "number") :
          /\ C6_SumSq(Column(prev, c), C6_Values(Column(prev, c))) # 0
          /\ \E i \in 1..NRows(prev) : data.rows[i][c].k = "std" /\ data.rows[i][c].den > 1

\* C7: stage 6 gives each value of a textual column the number of distinct
\* values of that column that are lexicographically smaller, so the codes run
\* from 0 in sorted order and depend only on the set of values of the column;
\* ["b","a","c","a"] becomes [1,0,2,0], and ["ab","B"] becomes [1,0].
C7_Code(cells, i) ==
    Cardinality({w \in {cells[j].s : j \in DOMAIN cells} : StrLess(w, cells[i].s)})

C7_SortedCodes ==
    (pc = "standardize" /\ Last("encode")) =>
        \A c \in SelectDtypes(prev, "object") :
            /\ \A i \in 1..NRows(prev) :
                  data.rows[i][c] = Num(C7_Code(Column(prev, c), i))
            /\ Column(prev, c) = <<Str(<<"b">>), Str(<<"a">>), Str(<<"c">>), Str(<<"a">>)>>
                  => Column(data, c) = <<Num(1), Num(0), Num(2), Num(0)>>
            /\ Column(prev, c) = <<Str(<<"a", "b">>), Str(<<"B">>)>>
                  => Column(data, c) = <<Num(1), Num(0)>>

\* the column ["b","a","c","a"] has been encoded
C7_Witness ==
    /\ pc = "standardize" /\ Last("encode")
    /\ "Time" \in SelectDtypes(prev, "object")
    /\ Column(prev, "Time") = <<Str(<<"b">>), Str(<<"a">>), Str(<<"c">>), Str(<<"a">>)>>
    /\ Column(data, "Time") = <<Num(1), Num(0), Num(2), Num(0)>>

\* C8: with a "Date" column, stage 5 leaves no "Date" column and the five columns
\* year, month, day, dayofweek (0 = Monday .. 6 = Sunday) and is_weekend, which is
\* 1 exactly when dayofweek is 5 or 6 and else 0; the other columns and the rows
\* are unchanged; 05/03/2021 is Friday 5 March 2021 and 06/03/2021 the Saturday
\* after it.  Without a "Date" column the stage changes nothing.
C8_Friday == <<"0", "5", "/", "0", "3", "/", "2", "0", "2", "1">>

C8_Saturday == <<"0", "6", "/", "0", "3", "/", "2", "0", "2", "1">>

C8_DateFeatures ==
    (pc = "encode" /\ Last("date")) =>
        IF "Date" \notin Cols(prev) THEN data = prev
        ELSE /\ Cols(data) = (Cols(prev) \ {"Date"}) \cup DateColumns
             /\ NRows(data) = NRows(prev)
             /\ \A c \in Cols(prev) \ ({"Date"} \cup DateColumns) :
                   Column(data, c) = Column(prev, c) /\ data.dtype[c] = prev.dtype[c]
             /\ \A i \in 1..NRows(data) :
                   LET r == data.rows[i]
                   IN /\ IsNa(r["dayofweek"]) \/ r["dayofweek"] \in {Num(d) : d \in 0..6}
                      /\ r["is_weekend"] =
                            (IF r["dayofweek"] \in {Num(5), Num(6)} THEN Num(1) ELSE Num(0))
                      /\ prev.rows[i]["Date"] = Str(C8_Friday) =>
                            /\ r["year"] = Num(2021) /\ r["month"] = Num(3) /\ r["day"] = Num(5)
                            /\ r["dayofweek"] = Num(4) /\ r["is_weekend"] = Num(0)
                      /\ prev.rows[i]["Date"] = Str(C8_Saturday) =>
                            /\ r["day"] = Num(6) /\ r["dayofweek"] = Num(5)
                            /\ r["is_weekend"] = Num(1)

\* a table with a Saturday, a weekday and an unparseable date has been through stage 5
C8_Witness ==
    /\ pc = "encode" /\ Last("date")
    /\ "Date" \in Cols(prev)
    /\ \E i, j, k \in 1..NRows(data) :
          /\ data.rows[i]["is_weekend"] = Num(1)
          /\ data.rows[j]["dayofweek"] = Num(4)
          /\ IsNa(data.rows[k]["dayofweek"])

\* C9: the stages run once each in the fixed order; the result is written only
\* after standardization, and the table written is the table returned.
C9_FixedStageOrder ==
    /\ Len(trace) <= Len(StageOrder)
    /\ \A i \in 1..Len(trace) : trace[i] = StageOrder[i]
    /\ (pc \in {"save", "done"} \/ returned) => trace = StageOrder
    /\ files # {} =>
          /\ returned /\ trace = StageOrder
          /\ \A f \in files : f.content = result /\ f.path = save_path.path
    /\ returned => (result = data /\ Last("standardize"))

\* a run that wrote its result
C9_Witness == pc = "done" /\ returned /\ files # {} /\ NRows(result) >= 2

\* C10: a numeric column whose present values are all equal comes out of stage 7
\* with 0 in each of these cells, and stage 7 makes no cell undefined that had a
\* value before it.
C10_ZeroDeviationIsDefined ==
    (pc = "save" /\ Last("standardize")) =>
        \A c \in SelectDtypes(prev, "number") : \A i \in 1..NRows(prev) :
            ~IsNa(prev.rows[i][c]) =>
                /\ data.rows[i][c].k = "std"
                /\ data.rows[i][c].den > 0
                /\ (\A j \in 1..NRows(prev) :
                        IsNa(prev.rows[j][c]) \/ prev.rows[j][c] = prev.rows[i][c])
                      => data.rows[i][c] = [k |-> "std", sgn |-> 0, num |-> 0, den |-> 1]

\* a constant column of two or more rows has been standardized to zeros
C10_Witness ==
    /\ pc = "save" /\ Last("standardize")
    /\ NRows(prev) >= 2
    /\ \E c \in SelectDtypes(prev, "number") :
          /\ \A i \in 1..NRows(prev) : prev.rows[i][c] = prev.rows[1][c] /\ ~IsNa(prev.rows[1][c])
          /\ \A i \in 1..NRows(data) : data.rows[i][c] = [k |-> "std", sgn |-> 0, num |-> 0, den |-> 1]

====
